---- MODULE Spec2Model ----
(***************************************************************************)
(* Surgical rectification pipeline of rectification_system.py.             *)
(* Strings are sequences of one-character strings; "" is <<>>.             *)
(***************************************************************************)
EXTENDS Integers, Sequences, FiniteSets, TLC

\* ------------------------------------------------------------------ bounds
MaxLen == 3        \* longest exhaustively enumerated sentence (SpecRule)
MaxAi  == 2        \* most sentences in an AI article (Spec)
MaxSrc == 4        \* most sentences in a source article (Spec)

\* --------------------------------------------------------------- characters
Digits == {"0", "1", "2", "3", "4", "5", "6", "7", "8", "9"}

UpperCase == <<"A", "B", "C", "D", "E", "F", "G", "H", "I", "J", "K", "L", "M",
               "N", "O", "P", "Q", "R", "S", "T", "U", "V", "W", "X", "Y", "Z">>

LowerCase == <<"a", "b", "c", "d", "e", "f", "g", "h", "i", "j", "k", "l", "m",
               "n", "o", "p", "q", "r", "s", "t", "u", "v", "w", "x", "y", "z">>

Letters == {UpperCase[k] : k \in 1..26} \cup {LowerCase[k] : k \in 1..26}

\* \s of the re module (ASCII part)
Whitespace == {" ", "\n", "\t", "\r"}

\* \w of the re module (ASCII part)
IsWord(c) == c \in Digits \cup Letters \cup {"_"}

\* case folding done by flags=re.I
Lower(c) ==
  IF \E k \in 1..26 : UpperCase[k] = c
  THEN LowerCase[CHOOSE k \in 1..26 : UpperCase[k] = c]
  ELSE c

MaxOf(S) == CHOOSE x \in S : \A y \in S : y <= x

MinOf(S) == CHOOSE x \in S : \A y \in S : x <= y

\* \b between s[p] and s[p+1] (p characters lie before the position)
WordBoundary(s, p) ==
  LET before == p >= 1 /\ p <= Len(s) /\ IsWord(s[p])
      after  == p + 1 >= 1 /\ p + 1 <= Len(s) /\ IsWord(s[p + 1])
  IN  before # after

RECURSIVE DigitRun(_, _)
\* number of consecutive \d characters starting at index p
DigitRun(s, p) ==
  IF p <= Len(s) /\ s[p] \in Digits THEN 1 + DigitRun(s, p + 1) ELSE 0

RECURSIVE WhitespaceRun(_, _)
\* number of consecutive \s characters starting at index p
WhitespaceRun(s, p) ==
  IF p <= Len(s) /\ s[p] \in Whitespace THEN 1 + WhitespaceRun(s, p + 1) ELSE 0

\* ---------------------------------------------------------------- NUMERIC_RE
\* The matchers return the index following the match, or 0 when there is none.
\* A greedy quantifier tries its longest repetition first and backs off: of the
\* continuations f[n] after n repetitions, the one with the largest n that matches.
LastNonZero(f) ==
  IF \A n \in DOMAIN f : f[n] = 0 THEN 0
  ELSE f[MaxOf({n \in DOMAIN f : f[n] # 0})]

\* the first alternative that matches wins
FirstNonZero(x, y) == IF x # 0 THEN x ELSE y

Smaller(x, y) == IF x < y THEN x ELSE y

\* the fraction's digits at q + 1: 0 unless s[q] is "."
FractionDigits(s, q) ==
  IF q <= Len(s) /\ s[q] = "." THEN DigitRun(s, q + 1) ELSE 0

\* (?:\.\d+)?\b  at index q: greedy fraction first, then the empty alternative
FractionThenBoundary(s, q) ==
  FirstNonZero(
    LastNonZero([m \in 1..FractionDigits(s, q) |->
                   IF WordBoundary(s, q + m) THEN q + m + 1 ELSE 0]),
    IF WordBoundary(s, q - 1) THEN q ELSE 0)

\* ,\d{3} at index q
CommaGroupAt(s, q) ==
  /\ q + 3 <= Len(s)
  /\ s[q] = ","
  /\ \A d \in 1..3 : s[q + d] \in Digits

RECURSIVE GroupsThenRest(_, _)
\* (?:,\d{3})*(?:\.\d+)?\b  at index q, greedy with backtracking
GroupsThenRest(s, q) ==
  FirstNonZero(IF CommaGroupAt(s, q) THEN GroupsThenRest(s, q + 4) ELSE 0,
               FractionThenBoundary(s, q))

\* \b\d{1,3}(?:,\d{3})*(?:\.\d+)?\b  at index p
NumericAlt1(s, p) ==
  IF ~WordBoundary(s, p - 1) THEN 0
  ELSE LastNonZero([n \in 1..Smaller(DigitRun(s, p), 3) |-> GroupsThenRest(s, p + n)])

MagnitudeWords ==
  { <<"m", "i", "l", "l", "i", "o", "n">>,
    <<"b", "i", "l", "l", "i", "o", "n">>,
    <<"t", "h", "o", "u", "s", "a", "n", "d">> }

\* the word w at index q, case-insensitive, followed by \b
WordAt(s, q, w) ==
  /\ q + Len(w) - 1 <= Len(s)
  /\ \A d \in 1..Len(w) : Lower(s[q + d - 1]) = w[d]
  /\ WordBoundary(s, q + Len(w) - 1)

\* (million|billion|thousand)\b  at index q
MagnitudeAt(s, q) ==
  IF \E w \in MagnitudeWords : WordAt(s, q, w)
  THEN q + Len(CHOOSE w \in MagnitudeWords : WordAt(s, q, w))
  ELSE 0

\* \s*(million|billion|thousand)\b  at index q
SpacesThenMagnitude(s, q) ==
  LastNonZero([j \in 0..WhitespaceRun(s, q) |-> MagnitudeAt(s, q + j)])

\* (?:\.\d+)?\s*(million|billion|thousand)\b  at index q
FractionThenMagnitude(s, q) ==
  FirstNonZero(
    LastNonZero([m \in 1..FractionDigits(s, q) |-> SpacesThenMagnitude(s, q + m + 1)]),
    SpacesThenMagnitude(s, q))

\* \b\d+(?:\.\d+)?\s*(million|billion|thousand)\b  at index p
NumericAlt2(s, p) ==
  IF ~WordBoundary(s, p - 1) THEN 0
  ELSE LastNonZero([n \in 1..DigitRun(s, p) |-> FractionThenMagnitude(s, p + n)])

\* NUMERIC_RE.match at index p
NumericMatchAt(s, p) == FirstNonZero(NumericAlt1(s, p), NumericAlt2(s, p))

RECURSIVE NumericFindIter(_, _)
RECURSIVE FindIterFrom(_, _, _)
\* the scan of finditer at index p, where a match would stop before index e
FindIterFrom(s, p, e) ==
  IF e # 0 THEN <<[start |-> p, stop |-> e - 1]>> \o NumericFindIter(s, e)
  ELSE NumericFindIter(s, p + 1)

\* NUMERIC_RE.finditer from index p: the matches, left to right, as spans
NumericFindIter(s, p) ==
  IF p > Len(s) THEN << >> ELSE FindIterFrom(s, p, NumericMatchAt(s, p))

\* m.group(0) of each span
SpanTexts(s, ms) == [k \in 1..Len(ms) |-> SubSeq(s, ms[k].start, ms[k].stop)]

\* [m.group(0) for m in NUMERIC_RE.finditer(s)]
NumericTokens(s) == SpanTexts(s, NumericFindIter(s, 1))

\* ------------------------------------------------------------------- YEAR_RE
YearPrefixes == { <<"1", "7">>, <<"1", "8">>, <<"1", "9">>, <<"2", "0">> }

\* \b(17|18|19|20)\d{2}\b  at index p
YearMatchAt(s, p) ==
  /\ p + 3 <= Len(s)
  /\ WordBoundary(s, p - 1)
  /\ <<s[p], s[p + 1]>> \in YearPrefixes
  /\ s[p + 2] \in Digits
  /\ s[p + 3] \in Digits
  /\ WordBoundary(s, p + 3)

\* YEAR_RE.search(s) as a span, or the span with start 0 when there is none
YearSearch(s) ==
  IF \A p \in 1..Len(s) : ~YearMatchAt(s, p) THEN [start |-> 0, stop |-> 0]
  ELSE [start |-> MinOf({p \in 1..Len(s) : YearMatchAt(s, p)}),
        stop  |-> MinOf({p \in 1..Len(s) : YearMatchAt(s, p)}) + 3]

\* ------------------------------------------------------ _numeric_rule_replace
\* the indices at which needle occurs in s
Occurrences(s, needle) ==
  {p \in 1..(Len(s) - Len(needle) + 1) : SubSeq(s, p, p + Len(needle) - 1) = needle}

\* s with the Len(a) characters at index p replaced by b
ReplaceAt(s, p, a, b) ==
  SubSeq(s, 1, p - 1) \o b \o SubSeq(s, p + Len(a), Len(s))

\* s.replace(a, b, 1): the first occurrence only, s itself when there is none
ReplaceFirst(s, a, b) ==
  IF Occurrences(s, a) = {} THEN s ELSE ReplaceAt(s, MinOf(Occurrences(s, a)), a, b)

RECURSIVE ReplaceLoop(_, _, _, _)
\* for a, b in zip(ai_nums, src_nums): corrected = corrected.replace(a, b, 1)
ReplaceLoop(corrected, ai_nums, src_nums, k) ==
  IF k > Len(ai_nums) \/ k > Len(src_nums) THEN corrected
  ELSE ReplaceLoop(ReplaceFirst(corrected, ai_nums[k], src_nums[k]),
                   ai_nums, src_nums, k + 1)

\* any(a != b for a, b in zip(ai_nums, src_nums))
AnyPairDiffers(ai_nums, src_nums) ==
  \E k \in 1..Smaller(Len(ai_nums), Len(src_nums)) : ai_nums[k] # src_nums[k]

\* the guard without its len(ai_nums) == len(src_nums) conjunct
NumericRuleAppliesAnyCount(ai_nums, src_nums) ==
  /\ ai_nums # << >>
  /\ src_nums # << >>
  /\ AnyPairDiffers(ai_nums, src_nums)

\* the guard of the substitution
NumericRuleApplies(ai_nums, src_nums) ==
  /\ ai_nums # << >>
  /\ src_nums # << >>
  /\ Len(ai_nums) = Len(src_nums)
  /\ AnyPairDiffers(ai_nums, src_nums)

\* the body of _numeric_rule_replace once both token lists are extracted
ReplaceByTokens(ai_sentence, ai_nums, src_nums) ==
  IF NumericRuleApplies(ai_nums, src_nums)
  THEN [corrected |-> ReplaceLoop(ai_sentence, ai_nums, src_nums, 1), changed |-> TRUE]
  ELSE [corrected |-> ai_sentence, changed |-> FALSE]

NumericRuleReplace(ai_sentence, src_sentence) ==
  ReplaceByTokens(ai_sentence, NumericTokens(ai_sentence), NumericTokens(src_sentence))

\* --------------------------------------------------------- _split_sentences
RECURSIVE LeadingWhitespace(_, _)
LeadingWhitespace(s, p) ==
  IF p <= Len(s) /\ s[p] \in Whitespace THEN 1 + LeadingWhitespace(s, p + 1) ELSE 0

RECURSIVE TrailingWhitespace(_, _)
TrailingWhitespace(s, p) ==
  IF p >= 1 /\ s[p] \in Whitespace THEN 1 + TrailingWhitespace(s, p - 1) ELSE 0

\* str.strip()
Strip(s) ==
  IF LeadingWhitespace(s, 1) = Len(s) THEN << >>
  ELSE SubSeq(s, LeadingWhitespace(s, 1) + 1, Len(s) - TrailingWhitespace(s, Len(s)))

SentenceEnd == {".", "!", "?"}

RECURSIVE SplitAfterEnd(_, _, _)
\* re.split(r'(?<=[.!?])\s+', s): p scans s, from is where the current piece began
SplitAfterEnd(s, p, from) ==
  IF p > Len(s) THEN <<SubSeq(s, from, Len(s))>>
  ELSE IF p > 1 /\ s[p - 1] \in SentenceEnd /\ s[p] \in Whitespace
       THEN <<SubSeq(s, from, p - 1)>>
              \o SplitAfterEnd(s, p + WhitespaceRun(s, p), p + WhitespaceRun(s, p))
       ELSE SplitAfterEnd(s, p + 1, from)

\* [s.strip() for s in sents if s.strip()]
StripAll(sents) ==
  SelectSeq([k \in 1..Len(sents) |-> Strip(sents[k])], LAMBDA s : s # << >>)

SplitSentences(text) == StripAll(SplitAfterEnd(Strip(text), 1, 1))

RECURSIVE JoinSentences(_)
\* " ".join(sents)
JoinSentences(sents) ==
  IF sents = << >> THEN << >>
  ELSE IF Len(sents) = 1 THEN sents[1]
  ELSE sents[1] \o <<" ">> \o JoinSentences(Tail(sents))

\* ------------------------------------------------- difflib.SequenceMatcher
RECURSIVE CommonRun(_, _, _, _, _, _)
\* length of the longest common run a[i..] = b[j..] inside a[..ahi], b[..bhi]
CommonRun(a, i, ahi, b, j, bhi) ==
  IF i <= ahi /\ j <= bhi /\ a[i] = b[j]
  THEN 1 + CommonRun(a, i + 1, ahi, b, j + 1, bhi)
  ELSE 0

\* size of the longest matching block of a[alo..ahi] and b[blo..bhi]
LongestSize(a, alo, ahi, b, blo, bhi) ==
  MaxOf({0} \cup {CommonRun(a, x[1], ahi, b, x[2], bhi) : x \in (alo..ahi) \X (blo..bhi)})

\* the earliest start in a of a block of that size
BestI(a, alo, ahi, b, blo, bhi, size) ==
  MinOf({x \in alo..ahi : \E y \in blo..bhi : CommonRun(a, x, ahi, b, y, bhi) = size})

\* the earliest start in b of a block of that size starting at besti in a
BestJ(a, besti, ahi, b, blo, bhi, size) ==
  MinOf({y \in blo..bhi : CommonRun(a, besti, ahi, b, y, bhi) = size})

BlockFrom(a, besti, ahi, b, blo, bhi, size) ==
  [i |-> besti, j |-> BestJ(a, besti, ahi, b, blo, bhi, size), size |-> size]

BlockOfSize(a, alo, ahi, b, blo, bhi, size) ==
  IF size = 0 THEN [i |-> alo, j |-> blo, size |-> 0]
  ELSE BlockFrom(a, BestI(a, alo, ahi, b, blo, bhi, size), ahi, b, blo, bhi, size)

\* find_longest_match(alo, ahi, blo, bhi): the longest block, the earliest in
\* a and, among those, the earliest in b (both ranges inclusive here)
FindLongestMatch(a, alo, ahi, b, blo, bhi) ==
  BlockOfSize(a, alo, ahi, b, blo, bhi, LongestSize(a, alo, ahi, b, blo, bhi))

RECURSIVE MatchedChars(_, _, _, _, _, _)
RECURSIVE MatchedAround(_, _, _, _, _, _, _)
\* the block m and, recursively, the blocks to its left and to its right
MatchedAround(a, alo, ahi, b, blo, bhi, m) ==
  IF m.size = 0 THEN 0
  ELSE m.size
       + MatchedChars(a, alo, m.i - 1, b, blo, m.j - 1)
       + MatchedChars(a, m.i + m.size, ahi, b, m.j + m.size, bhi)

\* sum of the sizes of get_matching_blocks() over a[alo..ahi], b[blo..bhi]
MatchedChars(a, alo, ahi, b, blo, bhi) ==
  IF alo > ahi \/ blo > bhi THEN 0
  ELSE MatchedAround(a, alo, ahi, b, blo, bhi, FindLongestMatch(a, alo, ahi, b, blo, bhi))

\* SequenceMatcher(None, a, b).ratio() = 2.0 * matches / length, as the pair
\* <<2 * matches, length>>; 1.0 for two empty strings
SequenceRatio(a, b) ==
  IF Len(a) + Len(b) = 0 THEN <<1, 1>>
  ELSE <<2 * MatchedChars(a, 1, Len(a), b, 1, Len(b)), Len(a) + Len(b)>>

\* max_fraction default of _minimal_edit_valid, in hundredths
MaxFractionPct == 40

\* similarity threshold of the low-similarity escalation, in hundredths
LowSimilarityPct == 75

\* k of _best_source_candidates
TopK == 3

\* 1 - ratio <= pct / 100
ChangedAtMost(ratio, pct) == (ratio[2] - ratio[1]) * 100 <= pct * ratio[2]

\* ratio < pct / 100
RatioBelow(ratio, pct) == ratio[1] * 100 < pct * ratio[2]

\* the validator comparing s.ratio(), not 1 - s.ratio(), with max_fraction
MinimalEditValidOnRatio(original, candidate) ==
  ~RatioBelow(SequenceRatio(original, candidate), MaxFractionPct)

\* ratio <= pct / 100
RatioAtMost(ratio, pct) == ratio[1] * 100 <= pct * ratio[2]

\* _minimal_edit_valid: changed_frac <= max_fraction
MinimalEditValid(original, candidate) ==
  ChangedAtMost(SequenceRatio(original, candidate), MaxFractionPct)

\* the escalation test written sim <= 0.75
LowSimilarityInclusive(ai_s, cand) ==
  RatioAtMost(SequenceRatio(ai_s, cand), LowSimilarityPct)

\* difflib.SequenceMatcher(None, ai_s, cand).ratio() < 0.75
LowSimilarity(ai_s, cand) ==
  RatioBelow(SequenceRatio(ai_s, cand), LowSimilarityPct)

\* ------------------------------------------------- _best_source_candidates
Larger(x, y) == IF x >= y THEN x ELSE y

RECURSIVE LcsLength(_, _, _, _)
\* longest common subsequence of a[1..i] and b[1..j]
LcsLength(a, i, b, j) ==
  IF i = 0 \/ j = 0 THEN 0
  ELSE IF a[i] = b[j] THEN 1 + LcsLength(a, i - 1, b, j - 1)
  ELSE Larger(LcsLength(a, i - 1, b, j), LcsLength(a, i, b, j - 1))

\* rapidfuzz fuzz.ratio = 100 * 2 * lcs / (len(a) + len(b)), as the pair
\* <<2 * lcs, len(a) + len(b)>>; 100 for two empty strings
FuzzRatio(a, b) ==
  IF Len(a) + Len(b) = 0 THEN <<1, 1>>
  ELSE <<2 * LcsLength(a, Len(a), b, Len(b)), Len(a) + Len(b)>>

\* the result order of process.extract: higher score, then lower index
Outranks(si, sj, i, j) ==
  \/ si[1] * sj[2] > sj[1] * si[2]
  \/ si[1] * sj[2] = sj[1] * si[2] /\ i < j

\* 1 for the best choice, 2 for the next one, ...
Rank(scores, i) ==
  1 + Cardinality({j \in DOMAIN scores : Outranks(scores[j], scores[i], j, i)})

\* the indices of the k best scores, best first
TopIndices(scores, k) ==
  [r \in 1..Smaller(Len(scores), k) |-> CHOOSE i \in DOMAIN scores : Rank(scores, i) = r]

\* process.extract(query, choices, scorer=fuzz.ratio, limit=k), as indices
ExtractIndices(query, choices, k) ==
  TopIndices([i \in 1..Len(choices) |-> FuzzRatio(query, choices[i])], k)

\* [choices[r[2]] for r in results]
ChoicesAt(choices, idx) == [r \in 1..Len(idx) |-> choices[idx[r]]]

BestSourceCandidates(ai_sentence, source_sentences, k) ==
  ChoicesAt(source_sentences, ExtractIndices(ai_sentence, source_sentences, k))

\* ------------------------------------------------------------------- inputs
\* the sentences an AI article is made of, each with the whitespace after it
AiPool ==
  << <<"a", " ", "1", ".", " ">>,
     <<"1", " ", "2", ".", "\n">>,
     <<"1", "9", "9", "9", ".", "\n", "\n">>,
     <<"a", "b", ".", " ", " ">> >>

\* the sentences a source article is made of, in article order
SrcPool ==
  << <<"a", " ", "2", ".", "\n">>,
     <<"1", " ", "2", ".", " ">>,
     <<"2", " ", "1", ".", " ">>,
     <<"a", "b", ".", "\n">>,
     <<"a", "b", " ", "1", ".", "\n">> >>

RECURSIVE Concat(_)
Concat(pieces) ==
  IF pieces = << >> THEN << >> ELSE Head(pieces) \o Concat(Tail(pieces))

RECURSIVE Pick(_, _, _)
\* the members of pool whose index is in S, in pool order, from index k on
Pick(pool, S, k) ==
  IF k > Len(pool) THEN << >>
  ELSE IF k \in S THEN <<pool[k]>> \o Pick(pool, S, k + 1)
  ELSE Pick(pool, S, k + 1)

\* the sets of at most n indices of pool
Selections(pool, n) == {X \in SUBSET (1..Len(pool)) : Cardinality(X) <= n}

\* AI articles: at most MaxAi pool sentences, in pool order
AiTexts == {Concat(Pick(AiPool, S, 1)) : S \in Selections(AiPool, MaxAi)}

\* source articles: at most MaxSrc pool sentences, in pool order
SourceTexts ==
  {Concat(Pick(SrcPool, S, 1)) : S \in Selections(SrcPool, MaxSrc)}

\* bodies the external service may send besides the two sentences of the prompt
ExtraBodies ==
  { << >>,
    <<"a", "b", "!">>,
    <<"a", " ", "1", ".", " ", "a", "b", ".">> }

\* what one request to the external service can come to: a 2xx answer with a
\* body, or an error (timeout, transport error, non-2xx status) with a body
ServiceOutcomes(ai_s, cand) ==
  {[status |-> "ok", text |-> x] : x \in {ai_s \o <<"\n">>, cand} \cup ExtraBodies}
    \cup {[status |-> "error", text |-> cand]}

\* ---------------------------------------------------------------- the state
VARIABLES
  pc,               \* "start", "loop", "done"; "rule", "ruled" in SpecRule
  ai_text,          \* argument of surgical_rectify
  source_text,      \* argument of surgical_rectify
  ai_sents,         \* _split_sentences(ai_text)
  src_sents,        \* _split_sentences(source_text)
  i,                \* sentences of ai_sents the for loop has finished
  corrected_sents,
  diagnostics,      \* [llm_calls, edits]
  rectified,        \* the returned text
  requests,         \* prompts sent to the external service, with their sentence
  taken,            \* per finished sentence: its candidates, the path taken,
                    \* the status of its request ("none" without one) and resp
  rule_ai,          \* SpecRule: arguments and result of _numeric_rule_replace
  rule_src,
  rule_result

vars == <<pc, ai_text, source_text, ai_sents, src_sents, i, corrected_sents,
          diagnostics, rectified, requests, taken, rule_ai, rule_src, rule_result>>

rule_vars == <<rule_ai, rule_src, rule_result>>

NoText == << >>

NoPrompt == [ai_sentence |-> NoText, source_sentence |-> NoText]

Init ==
  /\ pc = "start"
  /\ ai_text \in AiTexts
  /\ source_text \in SourceTexts
  /\ ai_sents = << >>
  /\ src_sents = << >>
  /\ i = 0
  /\ corrected_sents = << >>
  /\ diagnostics = [llm_calls |-> 0, edits |-> 0]
  /\ rectified = NoText
  /\ requests = << >>
  /\ taken = << >>
  /\ rule_ai = NoText
  /\ rule_src = NoText
  /\ rule_result = [corrected |-> NoText, changed |-> FALSE]

\* --------------------------------------------------------- call_llm_surgical
\* the call without raise_for_status(): the body of an error answer is returned
CallLlmSurgicalUnchecked(outcome) == Strip(outcome.text)

\* raise_for_status() and the except clause turn every error into ""
CallLlmSurgical(outcome) ==
  IF outcome.status = "error" THEN << >> ELSE Strip(outcome.text)

\* _build_surgical_prompt: the two sentences set into the fixed instructions
BuildSurgicalPrompt(ai_sentence_marked, source_sentence) ==
  [ai_sentence |-> ai_sentence_marked, source_sentence |-> source_sentence]

\* ---------------------------------------------------------- surgical_rectify
\* candidates = _best_source_candidates(ai_s, src_sents, k=3) if src_sents else []
RetrieveCandidates(ai_s, srcs) ==
  IF srcs # << >> THEN BestSourceCandidates(ai_s, srcs, TopK) ELSE << >>

\* ranks of the candidates for which _numeric_rule_replace reports a change
RuleHits(ai_s, cands) ==
  {r \in 1..Len(cands) : NumericRuleReplace(ai_s, cands[r]).changed}

\* NUMERIC_RE.search(ai_s) or YEAR_RE.search(ai_s), given the finditer spans
FirstSpanOr(ms, year) == IF ms # << >> THEN ms[1] ELSE year

\* span_m; the span with start 0 is None
SpanSearch(ai_s) == FirstSpanOr(NumericFindIter(ai_s, 1), YearSearch(ai_s))

\* ai_s[:span_m.start()] + "<<" + span_m.group(0) + ">>" + ai_s[span_m.end():]
MarkSpan(ai_s, span) ==
  SubSeq(ai_s, 1, span.start - 1) \o <<"<", "<">>
    \o SubSeq(ai_s, span.start, span.stop) \o <<">", ">">>
    \o SubSeq(ai_s, span.stop + 1, Len(ai_s))

\* if span_m and candidates
SpanPath(ai_s, cands) == SpanSearch(ai_s).start # 0 /\ cands # << >>

\* if candidates: sim < 0.75
LowSimPath(ai_s, cands) == cands # << >> /\ LowSimilarity(ai_s, cands[1])

\* the loop body with the span test placed before the numeric rule
BranchSpanFirst(ai_s, cands, hits) ==
  IF SpanPath(ai_s, cands)
  THEN [path |-> "span", text |-> ai_s, cands |-> cands,
        prompt |-> BuildSurgicalPrompt(MarkSpan(ai_s, SpanSearch(ai_s)), cands[1])]
  ELSE IF hits # {}
  THEN [path |-> "rule", prompt |-> NoPrompt, cands |-> cands,
        text |-> NumericRuleReplace(ai_s, cands[MinOf(hits)]).corrected]
  ELSE IF LowSimPath(ai_s, cands)
  THEN [path |-> "lowsim", text |-> ai_s, cands |-> cands,
        prompt |-> BuildSurgicalPrompt(ai_s, cands[1])]
  ELSE [path |-> "pass", text |-> ai_s, cands |-> cands, prompt |-> NoPrompt]

\* The loop body up to its first external call or append: which of the four
\* branches the sentence takes, the text of branch 1, the prompt of 2 and 3.
BranchByHits(ai_s, cands, hits) ==
  IF hits # {}
  THEN [path |-> "rule", prompt |-> NoPrompt, cands |-> cands,
        text |-> NumericRuleReplace(ai_s, cands[MinOf(hits)]).corrected]
  ELSE IF SpanPath(ai_s, cands)
  THEN [path |-> "span", text |-> ai_s, cands |-> cands,
        prompt |-> BuildSurgicalPrompt(MarkSpan(ai_s, SpanSearch(ai_s)), cands[1])]
  ELSE IF LowSimPath(ai_s, cands)
  THEN [path |-> "lowsim", text |-> ai_s, cands |-> cands,
        prompt |-> BuildSurgicalPrompt(ai_s, cands[1])]
  ELSE [path |-> "pass", text |-> ai_s, cands |-> cands, prompt |-> NoPrompt]

Branch(ai_s, cands) == BranchByHits(ai_s, cands, RuleHits(ai_s, cands))

\* the branch of the sentence the for loop is at
CurrentBranch ==
  Branch(ai_sents[i + 1], RetrieveCandidates(ai_sents[i + 1], src_sents))

\* if resp: if _minimal_edit_valid(ai_s, resp)
Accepted(ai_s, resp) == resp # << >> /\ MinimalEditValid(ai_s, resp)

InLoop == pc = "loop" /\ i < Len(ai_sents)

Segment ==
  /\ pc = "start"
  /\ ai_sents' = SplitSentences(ai_text)
  /\ src_sents' = SplitSentences(source_text)
  /\ corrected_sents' = << >>
  /\ diagnostics' = [llm_calls |-> 0, edits |-> 0]
  /\ pc' = "loop"
  /\ UNCHANGED <<ai_text, source_text, i, rectified, requests, taken, rule_vars>>

\* corrected_sents.append(corrected); diagnostics["edits"] += 1; continue
ApplyRule(b) ==
  /\ b.path = "rule"
  /\ corrected_sents' = Append(corrected_sents, b.text)
  /\ diagnostics' = [diagnostics EXCEPT !.edits = @ + 1]
  /\ taken' = Append(taken, [path |-> "rule", cands |-> b.cands, status |-> "none",
                            resp |-> NoText])

\* 1) the numeric rule, tried on the candidates in rank order
DeterministicRule ==
  /\ InLoop
  /\ ApplyRule(CurrentBranch)
  /\ i' = i + 1
  /\ UNCHANGED <<pc, ai_text, source_text, ai_sents, src_sents, rectified, requests, rule_vars>>

\* Receive with llm_calls incremented after the validation, on acceptance only
ReceiveCountingAccepted(ai_s, b, status, resp, accepted) ==
  /\ taken' = Append(taken, [path |-> b.path, cands |-> b.cands, status |-> status,
                            resp |-> resp])
  /\ IF accepted
     THEN /\ corrected_sents' = Append(corrected_sents, resp)
          /\ diagnostics' =
               [llm_calls |-> diagnostics.llm_calls + 1,
                edits     |-> IF resp # ai_s THEN diagnostics.edits + 1
                              ELSE diagnostics.edits]
     ELSE /\ corrected_sents' = Append(corrected_sents, ai_s)
          /\ diagnostics' = diagnostics

\* what both model-assisted branches do with resp, accepted or not
Receive(ai_s, b, status, resp, accepted) ==
  /\ taken' = Append(taken, [path |-> b.path, cands |-> b.cands, status |-> status,
                            resp |-> resp])
  /\ IF accepted
     THEN /\ corrected_sents' = Append(corrected_sents, resp)
          /\ diagnostics' =
               [llm_calls |-> diagnostics.llm_calls + 1,
                edits     |-> IF resp # ai_s THEN diagnostics.edits + 1
                              ELSE diagnostics.edits]
     ELSE /\ corrected_sents' = Append(corrected_sents, ai_s)
          /\ diagnostics' = [diagnostics EXCEPT !.llm_calls = @ + 1]

\* resp = call_llm_surgical(prompt); diagnostics["llm_calls"] += 1; ...
Answer(ai_s, b, status, resp) ==
  Receive(ai_s, b, status, resp, Accepted(ai_s, resp))

AskModel(ai_s, b, path) ==
  /\ b.path = path
  /\ requests' = Append(requests, [sent |-> i + 1, prompt |-> b.prompt])
  /\ \E outcome \in ServiceOutcomes(ai_s, b.prompt.source_sentence) :
       Answer(ai_s, b, outcome.status, CallLlmSurgical(outcome))

\* 2) a numeric or year span is marked and the model is asked
SpanMarked ==
  /\ InLoop
  /\ AskModel(ai_sents[i + 1], CurrentBranch, "span")
  /\ i' = i + 1
  /\ UNCHANGED <<pc, ai_text, source_text, ai_sents, src_sents, rectified, rule_vars>>

\* 3) no span, low similarity to the best candidate: the model is asked
LowSimilarityCheck ==
  /\ InLoop
  /\ AskModel(ai_sents[i + 1], CurrentBranch, "lowsim")
  /\ i' = i + 1
  /\ UNCHANGED <<pc, ai_text, source_text, ai_sents, src_sents, rectified, rule_vars>>

\* the default branch without its append
KeepAsIsDropped(b) ==
  /\ b.path = "pass"
  /\ corrected_sents' = corrected_sents
  /\ taken' = Append(taken, [path |-> "pass", cands |-> b.cands, status |-> "none",
                            resp |-> NoText])

\* corrected_sents.append(ai_s)
KeepAsIs(b) ==
  /\ b.path = "pass"
  /\ corrected_sents' = Append(corrected_sents, b.text)
  /\ taken' = Append(taken, [path |-> "pass", cands |-> b.cands, status |-> "none",
                            resp |-> NoText])

\* default: keep sentence as-is
PassThrough ==
  /\ InLoop
  /\ KeepAsIs(CurrentBranch)
  /\ i' = i + 1
  /\ UNCHANGED <<pc, ai_text, source_text, ai_sents, src_sents, diagnostics, rectified,
                 requests, rule_vars>>

\* rectified = " ".join(corrected_sents); return rectified, diagnostics
Return ==
  /\ pc = "loop"
  /\ i = Len(ai_sents)
  /\ rectified' = JoinSentences(corrected_sents)
  /\ pc' = "done"
  /\ UNCHANGED <<ai_text, source_text, ai_sents, src_sents, i, corrected_sents,
                 diagnostics, requests, taken, rule_vars>>

Next ==
  \/ Segment
  \/ DeterministicRule
  \/ SpanMarked
  \/ LowSimilarityCheck
  \/ PassThrough
  \/ Return

Spec == Init /\ [][Next]_vars

\* ------------------------------------------ _numeric_rule_replace on its own
RuleAlphabet == {"1", "2", "a", " "}

\* sentences with the comma, fraction and magnitude forms of NUMERIC_RE
RuleExtras ==
  { <<"1", "0", " ", "1">>,
    <<"a", "1", " ", "1">>,
    <<"1", ",", "2", "3", "4", ".", "5">>,
    <<"2", ".", "5", " ", "a">>,
    <<"1", "2", "3", "4", " ", "m", "i", "l", "l", "i", "o", "n">>,
    <<"2", " ", "B", "i", "l", "l", "i", "o", "n">>,
    <<"i", "n", " ", "1", "9", "9", "9">> }

RECURSIVE SeqsUpTo(_, _)
\* the sequences of at most n members of S
SeqsUpTo(S, n) ==
  IF n = 0 THEN {<< >>}
  ELSE SeqsUpTo(S, n - 1) \cup {Append(q[1], q[2]) : q \in SeqsUpTo(S, n - 1) \X S}

RuleStrings == SeqsUpTo(RuleAlphabet, MaxLen) \cup RuleExtras

InitRule ==
  /\ pc = "rule"
  /\ rule_ai \in RuleStrings
  /\ rule_src \in RuleStrings
  /\ rule_result = [corrected |-> NoText, changed |-> FALSE]
  /\ ai_text = NoText
  /\ source_text = NoText
  /\ ai_sents = << >>
  /\ src_sents = << >>
  /\ i = 0
  /\ corrected_sents = << >>
  /\ diagnostics = [llm_calls |-> 0, edits |-> 0]
  /\ rectified = NoText
  /\ requests = << >>
  /\ taken = << >>

\* corrected, changed = _numeric_rule_replace(ai_s, cand)
CallRule ==
  /\ pc = "rule"
  /\ rule_result' = NumericRuleReplace(rule_ai, rule_src)
  /\ pc' = "ruled"
  /\ UNCHANGED <<ai_text, source_text, ai_sents, src_sents, i, corrected_sents,
                 diagnostics, rectified, requests, taken, rule_ai, rule_src>>

NextRule == CallRule

SpecRule == InitRule /\ [][NextRule]_vars

\* ------------------------------------------------------------------ claims
\* the candidates retrieved for the j-th AI sentence
CandsOf(j) == taken[j].cands

\* the requests issued for the j-th AI sentence
RequestsFor(j) == {k \in 1..Len(requests) : requests[k].sent = j}

ModelPaths == {"span", "lowsim"}

\* the finished sentences whose entry in taken satisfies P
Count(P(_)) == Cardinality({j \in 1..Len(taken) : P(taken[j])})

\* ---- C8
\* the three conditions of the claim, on the token lists
AlignedAndDiffering(ai_nums, src_nums) ==
  /\ Len(ai_nums) >= 1
  /\ Len(src_nums) >= 1
  /\ Len(ai_nums) = Len(src_nums)
  /\ \E k \in 1..Len(ai_nums) : ai_nums[k] # src_nums[k]

ChangedIff(ai_s, result, aligned) ==
  /\ result.changed <=> aligned
  /\ ~aligned => result.corrected = ai_s

\* C8: _numeric_rule_replace reports changed = TRUE exactly when both sentences
\* have at least one numeric token, have the same number of them and some
\* positional pair differs; in every other case it reports changed = FALSE and
\* returns the AI sentence verbatim.
C8_ChangedIffAlignedAndDiffering ==
  pc = "ruled" =>
    ChangedIff(rule_ai, rule_result,
               AlignedAndDiffering(NumericTokens(rule_ai), NumericTokens(rule_src)))

C8_Witness ==
  /\ pc = "ruled"
  /\ rule_result.changed
  /\ rule_result.corrected # rule_ai
  /\ Len(NumericTokens(rule_ai)) = 2

\* ---- C10
\* C10: whenever _numeric_rule_replace applies, the numeric tokens of the
\* corrected sentence, read left to right, are the candidate's numeric tokens
\* in order.
C10_TokensBecomeCandidateTokens ==
  (pc = "ruled" /\ rule_result.changed) =>
    NumericTokens(rule_result.corrected) = NumericTokens(rule_src)

\* ---- C1
\* the output entry is the decision taken for that sentence: the sentence
\* itself, its deterministic replacement, or the answer to its own request
EntryIsDecision(ai_s, t, out) ==
  \/ t.path = "pass" /\ out = ai_s
  \/ /\ t.path = "rule"
     /\ \E r \in 1..Len(t.cands) : out = NumericRuleReplace(ai_s, t.cands[r]).corrected
  \/ t.path \in ModelPaths /\ out \in {ai_s, t.resp}

\* C1: whatever the external service does, surgical_rectify appends exactly one
\* output entry per segmented AI sentence, in order: after i sentences there
\* are i entries, the j-th entry is the decision for the j-th sentence, and on
\* return there is one entry per AI sentence, joined in that order.
C1_OneEntryPerSentence ==
  /\ Len(corrected_sents) = i
  /\ Len(taken) = i
  /\ i <= Len(ai_sents)
  /\ \A j \in 1..i : EntryIsDecision(ai_sents[j], taken[j], corrected_sents[j])
  /\ pc = "done" =>
       /\ Len(corrected_sents) = Len(ai_sents)
       /\ rectified = JoinSentences(corrected_sents)

C1_Witness ==
  /\ pc = "done"
  /\ Len(ai_sents) >= 2
  /\ taken[1].path = "rule"
  /\ corrected_sents[1] # ai_sents[1]
  /\ taken[2].status = "error"
  /\ ai_sents[1] # ai_sents[2]

\* ---- C2
\* similarity to the best candidate below 0.75
SimBelowThreshold(ratio) == 4 * ratio[1] < 3 * ratio[2]

\* the sentence has a numeric or a year token
HasSpan(ai_s) == NumericTokens(ai_s) # << >> \/ YearSearch(ai_s).start # 0

\* the ranks of the candidates on which the deterministic rule produces a change
ChangingRanks(ai_s, cands) ==
  {r \in 1..Len(cands) : NumericRuleReplace(ai_s, cands[r]).changed}

\* the path the priority order of the claim prescribes
ExpectedPath(ai_s, cands, ranks) ==
  IF ranks # {} THEN "rule"
  ELSE IF HasSpan(ai_s) /\ cands # << >> THEN "span"
  ELSE IF cands # << >> /\ SimBelowThreshold(SequenceRatio(ai_s, cands[1])) THEN "lowsim"
  ELSE "pass"

PathClaim(j, ai_s, cands, t, ranks) ==
  /\ t.path = ExpectedPath(ai_s, cands, ranks)
  /\ t.path = "rule" =>
       corrected_sents[j] = NumericRuleReplace(ai_s, cands[MinOf(ranks)]).corrected
  /\ Cardinality(RequestsFor(j)) = IF t.path \in ModelPaths THEN 1 ELSE 0
  /\ t.path = "pass" => corrected_sents[j] = ai_s

\* C2: each AI sentence takes exactly one of the four paths, in priority order:
\* the deterministic rule with the first candidate in rank order that produces
\* a change, else the span-marked request (numeric or year token, a candidate
\* exists), else the low-similarity request (similarity to the best candidate
\* below 0.75), else pass-through; a taken path excludes the later ones, and on
\* pass-through the sentence is unchanged and no request is issued.
C2_OnePathInPriorityOrder ==
  \A j \in 1..i :
    PathClaim(j, ai_sents[j], CandsOf(j), taken[j], ChangingRanks(ai_sents[j], CandsOf(j)))

C2_Witness ==
  /\ pc = "done"
  /\ Len(ai_sents) >= 2
  /\ taken[1].path = "rule"
  /\ ~NumericRuleReplace(ai_sents[1], CandsOf(1)[1]).changed
  /\ taken[2].path = "lowsim"

\* ---- C3
IsModelPath(t) == t.path \in ModelPaths

RequestClaim(j, t) ==
  /\ Cardinality(RequestsFor(j)) <= 1
  /\ t.path = "rule" => RequestsFor(j) = {}
  /\ t.status # "none" => RequestsFor(j) # {}

\* C3: llm_calls equals the number of external requests issued, whether the
\* request succeeded, returned empty or failed; a failed request is not
\* retried, so a sentence has at most one request, and none when the
\* deterministic rule resolved it.
C3_LlmCallsCountRequests ==
  /\ diagnostics.llm_calls = Len(requests)
  /\ \A k \in 1..Len(requests) : requests[k].sent \in 1..i
  /\ \A j \in 1..i : RequestClaim(j, taken[j])

C3_Witness ==
  /\ pc = "done"
  /\ diagnostics.llm_calls = 2
  /\ taken[1].status = "error"
  /\ taken[2].status = "ok"
  /\ taken[2].resp = NoText

\* ---- C4
\* C4: on return, edits equals the number of sentences whose output text
\* differs from their input text.
C4_EditsCountChangedSentences ==
  pc = "done" =>
    diagnostics.edits = Cardinality({j \in 1..i : corrected_sents[j] # ai_sents[j]})

\* ---- C5
RequestFailed(t) == t.status = "error"

RequestAnswered(t) == t.status = "ok"

EveryRequestFailed == pc = "done" /\ Count(RequestAnswered) = 0

\* C5 as claimed: if every external request fails, the rectified output is the
\* original AI text (here even up to the whitespace between its sentences).
C5_FailuresReturnOriginal ==
  EveryRequestFailed =>
    /\ corrected_sents = ai_sents
    /\ rectified = JoinSentences(ai_sents)

\* C5 as amended: if every external request fails, then on return there is one
\* output entry per AI sentence, every sentence the deterministic rule did not
\* replace is output verbatim, and the output is the entries joined by single
\* spaces.
C5_FailuresKeepAllButRuleEdits ==
  EveryRequestFailed =>
    /\ Len(corrected_sents) = Len(ai_sents)
    /\ \A j \in 1..i : taken[j].path # "rule" => corrected_sents[j] = ai_sents[j]
    /\ rectified = JoinSentences(corrected_sents)

C5_Witness ==
  /\ EveryRequestFailed
  /\ Count(RequestFailed) = 2
  /\ rectified = JoinSentences(ai_sents)

\* ---- C6
MatchesBestCandidate(ai_s, cands) == cands # << >> /\ ai_s = cands[1]

\* C6: an AI sentence equal to its rank-1 candidate is returned unchanged,
\* counts no edit and has no external request issued for it.
C6_CleanSentenceUntouched ==
  \A j \in 1..i :
    MatchesBestCandidate(ai_sents[j], CandsOf(j)) =>
      /\ corrected_sents[j] = ai_sents[j]
      /\ taken[j].path = "pass"
      /\ RequestsFor(j) = {}

\* ---- C7
\* changed fraction 1 - ratio above 0.4
ChangedTooMuch(ratio) == 5 * (ratio[2] - ratio[1]) > 2 * ratio[2]

Rejected(ai_s, resp) == resp = NoText \/ ChangedTooMuch(SequenceRatio(ai_s, resp))

OutputIfRejected(ai_s, resp, out, rejected) ==
  /\ rejected => out = ai_s
  /\ ~rejected => out = resp

ValidationClaim(ai_s, t, out) ==
  t.path \in ModelPaths => OutputIfRejected(ai_s, t.resp, out, Rejected(ai_s, t.resp))

\* the sentences that count as an edit: the rule's, and those a model-assisted
\* path changed
CountsAsEdit(j) ==
  \/ taken[j].path = "rule"
  \/ taken[j].path \in ModelPaths /\ corrected_sents[j] # ai_sents[j]

\* C7: on both model-assisted paths, an empty answer or one whose changed
\* fraction against the original sentence exceeds 0.4 leaves the original
\* sentence in the output and counts no edit, while llm_calls is incremented;
\* an answer is placed in the output only if it is non-empty and valid.
C7_RejectedAnswerKeepsOriginal ==
  /\ \A j \in 1..i : ValidationClaim(ai_sents[j], taken[j], corrected_sents[j])
  /\ diagnostics.edits = Cardinality({j \in 1..i : CountsAsEdit(j)})
  /\ diagnostics.llm_calls = Count(IsModelPath)

C7_Witness ==
  /\ pc = "done"
  /\ Len(ai_sents) >= 2
  /\ taken[1].path = "span"
  /\ taken[1].resp # NoText
  /\ Rejected(ai_sents[1], taken[1].resp)
  /\ taken[2].path = "lowsim"
  /\ ~Rejected(ai_sents[2], taken[2].resp)
  /\ diagnostics = [llm_calls |-> 2, edits |-> 1]

\* ---- C9
CountDiffers(n, cands) ==
  \A r \in 1..Len(cands) : Len(NumericTokens(cands[r])) # n

\* a candidate exists and every candidate has another number of numeric tokens
AllCountsDiffer(ai_s, cands) ==
  cands # << >> /\ CountDiffers(Len(NumericTokens(ai_s)), cands)

\* C9 as claimed: when the numeric token counts of the AI sentence and of every
\* ranked candidate differ, an external request is issued for the sentence.
C9_CountMismatchAlwaysAsksModel ==
  \A j \in 1..i : AllCountsDiffer(ai_sents[j], CandsOf(j)) => RequestsFor(j) # {}

EscalationClaim(j, ai_s, cands) ==
  AllCountsDiffer(ai_s, cands) =>
    /\ taken[j].path # "rule"
    /\ RequestsFor(j) # {} <=>
         (HasSpan(ai_s) \/ SimBelowThreshold(SequenceRatio(ai_s, cands[1])))
    /\ RequestsFor(j) = {} => corrected_sents[j] = ai_s

\* C9 as amended: when the counts differ for every candidate the deterministic
\* rule is skipped, and a request is issued exactly when the sentence has a
\* numeric or year token or its similarity to the best candidate is below
\* 0.75; otherwise the sentence passes through unchanged without a request.
C9_CountMismatchAsksModelOnSpanOrLowSim ==
  \A j \in 1..i : EscalationClaim(j, ai_sents[j], CandsOf(j))

C9_Witness ==
  /\ pc = "done"
  /\ Len(ai_sents) >= 2
  /\ AllCountsDiffer(ai_sents[1], CandsOf(1))
  /\ taken[1].path = "span"
  /\ AllCountsDiffer(ai_sents[2], CandsOf(2))
  /\ taken[2].path = "pass"

====
